---- MODULE Spec2Model ----
(***************************************************************************)
(* State-machine model of the SyconApi client                              *)
(* (libs/SyconApi/src/sycon_api/sycon_api.py): the token held by a client, *)
(* the retried transport calls, the three lru_cache memoised query methods *)
(* and the call frames of the callers that run the public operations.      *)
(***************************************************************************)
EXTENDS Integers, Sequences, FiniteSets, TLC

VARIABLES
    token,      \* token[c]: SyconApi._token of client instance c ("None" when absent)
    cache,      \* cache[m]: the lru_cache of query method m, least recently used first
    th,         \* th[t]: the call frame of caller t
    budget      \* the calls the callers may still make: <<n>>, or <<>> for any number

vars == <<token, cache, th, budget>>

-----------------------------------------------------------------------------
(* Bounds of the model *)

\* number of distinct token values the server hands out
NumTokens == 2
\* number of distinct JSON object payloads the server hands out
NumPayloads == 2

\* how far above the ceiling of a batch the limits of a query go
MaxOver == 2

\* number of calls a caller makes once a cache is full
MaxCalls == 3

-----------------------------------------------------------------------------
(* Program constants *)

k_size_batch_limit == 10000

stop_after_attempt == 3

lru_maxsize == 10

-----------------------------------------------------------------------------
(* Values *)

None == "None"
NoHeader == "NoHeader"

\* an Optional[int] limit: <<>> is None, <<n>> is the integer n
NoLimit == <<>>
Limit(n) == <<n>>

\* no bound on the number of calls
NoBudget == <<>>

Clients == {"c1"}
Threads == {"t1", "t2"}
MainThread == "t1"

TokenName(i) == IF i = 1 THEN "tokA" ELSE IF i = 2 THEN "tokB" ELSE "tokC"
Tokens == {TokenName(i) : i \in 1..NumTokens}

PayloadName(i) == IF i = 1 THEN "obj1" ELSE IF i = 2 THEN "obj2" ELSE "obj3"
Objects == {PayloadName(i) : i \in 1..NumPayloads}

\* response bodies of the data endpoint: JSON objects, a JSON array, non-JSON text
DataBodies == Objects \cup {"arr", "raw"}

\* the exception classes of the module, and those that reach callers untyped
Typed == {"MissingParameters", "InvalidParameters", "BadResponse", "ServerError"}

\* status codes the server answers with
Statuses == {200, 204, 401, 503}

-----------------------------------------------------------------------------
(* Validator *)

\* the characters \d matches in a pattern over str, compiled without re.ASCII:
\* every Unicode decimal digit, the ten of ASCII and, standing for the others,
\* ARABIC-INDIC DIGIT THREE (U+0663)
Digits == {"0", "1", "2", "3", "4", "5", "6", "7", "8", "9", "U+0663"}

AllDigits(s, lo, hi) == \A i \in lo..hi : s[i] \in Digits

\* re.fullmatch of ^\d{4}-\d{2}-\d{2}T\d{2}:\d{2}:\d{2}(?:\.\d+)?Z$ on a
\* string given as its sequence of characters
IsIsoInstant(s) ==
    /\ Len(s) >= 20
    /\ AllDigits(s, 1, 4) /\ s[5] = "-"
    /\ AllDigits(s, 6, 7) /\ s[8] = "-"
    /\ AllDigits(s, 9, 10) /\ s[11] = "T"
    /\ AllDigits(s, 12, 13) /\ s[14] = ":"
    /\ AllDigits(s, 15, 16) /\ s[17] = ":"
    /\ AllDigits(s, 18, 19)
    /\ \/ Len(s) = 20 /\ s[20] = "Z"
       \/ /\ Len(s) >= 22
          /\ s[20] = "."
          /\ AllDigits(s, 21, Len(s) - 1)
          /\ s[Len(s)] = "Z"

\* _raise_on_date_ISO_8601_bad_format: the failure raised, or "ok"
RaiseOnDateBadFormat(date) ==
    IF IsIsoInstant(date) THEN "ok" ELSE "InvalidParameters"

\* a presence test by truth value, which takes a limit of 0 for an absent one
RaiseOnThresholdPresenceMut(head, tail) ==
    LET absent(l) == l = NoLimit \/ l = Limit(0)
    IN IF absent(head) /\ absent(tail) THEN "MissingParameters"
       ELSE IF ~absent(head) /\ ~absent(tail) THEN "InvalidParameters"
       ELSE "ok"

\* _raise_on_threshold_presence: the failure raised, or "ok"
RaiseOnThresholdPresence(head, tail) ==
    IF head = NoLimit /\ tail = NoLimit THEN "MissingParameters"
    ELSE IF head # NoLimit /\ tail # NoLimit THEN "InvalidParameters"
    ELSE "ok"

\* a limit placed in the request as it was given
CapLimitMut(limit) == limit

\* one limit as _fill_get_data_args places it in the request
CapLimit(limit) ==
    IF limit[1] > k_size_batch_limit THEN Limit(k_size_batch_limit) ELSE limit

\* _fill_get_data_args: the query arguments of the data request; a key the
\* code leaves out of the dictionary is absent (NoLimit, "None") here
FillGetDataArgs(q) ==
    [start |-> q.start,
     end |-> q.end,
     headLimit |-> IF q.head # NoLimit THEN CapLimit(q.head) ELSE NoLimit,
     tailLimit |-> IF q.tail # NoLimit THEN CapLimit(q.tail) ELSE NoLimit,
     externalSensorId |-> q.ext]

\* a validation of the limits alone
ValidateMut(q) == RaiseOnThresholdPresence(q.head, q.tail)

\* the three validations every data query runs first, in the code's order
Validate(q) ==
    LET r1 == RaiseOnThresholdPresence(q.head, q.tail)
        r2 == RaiseOnDateBadFormat(q.start)
        r3 == RaiseOnDateBadFormat(q.end)
    IN IF r1 # "ok" THEN r1 ELSE IF r2 # "ok" THEN r2 ELSE r3

-----------------------------------------------------------------------------
(* Transport *)

\* a classification that takes 500 for a success
ClassifyMut(status) ==
    IF status > 500 /\ status < 600 THEN "ServerError"
    ELSE IF status >= 400 /\ status < 500 THEN "BadResponse"
    ELSE "ok"

\* the status classes of _get_request / _post_request
Classify(status) ==
    IF status >= 500 /\ status < 600 THEN "ServerError"
    ELSE IF status >= 400 /\ status < 500 THEN "BadResponse"
    ELSE "ok"

\* a retry predicate that takes every failure of the module for retryable
ShouldRetryMut(failure) == failure \in {"ServerError", "BadResponse"}

\* retry_if_exception_type(SyconApiServerErrorResponseException)
ShouldRetry(failure) == failure = "ServerError"


\* a retry policy that never gives up on a server error
RetryOutcomeMut(attempt, failure) ==
    IF ~ShouldRetry(failure) THEN failure ELSE "retry"

\* tenacity's decision after a failed attempt: the failure re-raised as it is
\* when the retry predicate rejects it, RetryError (reraise is left at its
\* default) when the attempts are used up, another attempt otherwise
RetryOutcome(attempt, failure) ==
    IF ~ShouldRetry(failure) THEN failure
    ELSE IF attempt >= stop_after_attempt THEN "RetryError"
    ELSE "retry"

\* _format_header_token on an empty dict of headers: the dict, as its
\* (name, value) pairs, with the Authorization header built from a token
FormatHeaderToken(tok) == << <<"Authorization", <<"Bearer", tok>>>> >>

-----------------------------------------------------------------------------
(* Parsing of response bodies *)

\* response.json() succeeds (no ValueError)
IsJson(body) == body # "raw"

\* isinstance(body, Dict)
IsDict(body) == body \in Objects

\* bodies of the device list endpoint: two JSON arrays of device records, a
\* JSON scalar, non-JSON text
ListBodies == {"listA", "listB", "scalar", "raw"}

Device(id) == [hasId |-> TRUE, id |-> id]
NoIdDevice == [hasId |-> FALSE, id |-> None]

\* the device records of a JSON array body
Records(body) ==
    IF body = "listA" THEN <<NoIdDevice, Device("d1")>>
    ELSE IF body = "listB" THEN <<Device("d2"), Device("d1")>>
    ELSE <<>>

\* the value can be iterated by `for device in devices`
IsIterable(value) == value \in {"listA", "listB"}

-----------------------------------------------------------------------------
(* Result cache: functools.lru_cache(maxsize=10) around the query methods *)

CachedOps == {"get_data_from_device", "get_data_from_devices",
              "get_data_from_all_devices"}

\* _make_key of lru_cache: the positional arguments (self first), then the
\* keyword arguments in the order given; shape tells how the caller passed
\* the arguments
MakeKey(shape, self, q) ==
    <<shape, self, q.device, q.devices, q.field, q.start, q.end,
      q.head, q.tail, q.ext>>

LruIndex(c, key) ==
    IF \E i \in 1..Len(c) : c[i].key = key
    THEN CHOOSE i \in 1..Len(c) : c[i].key = key
    ELSE 0

Without(c, i) == SubSeq(c, 1, i - 1) \o SubSeq(c, i + 1, Len(c))

\* a hit makes the entry the most recently used one
LruTouch(c, i) == Append(Without(c, i), c[i])

\* a store that makes room by dropping the most recently used entry
LruPutMut(c, entry) ==
    IF LruIndex(c, entry.key) # 0 THEN c
    ELSE IF Len(c) >= lru_maxsize THEN Append(SubSeq(c, 1, Len(c) - 1), entry)
    ELSE Append(c, entry)

\* storing the result of a miss: nothing when the key got stored meanwhile,
\* else the oldest entry goes when the cache is full
LruPut(c, entry) ==
    IF LruIndex(c, entry.key) # 0 THEN c
    ELSE IF Len(c) >= lru_maxsize THEN Append(Tail(c), entry)
    ELSE Append(c, entry)

-----------------------------------------------------------------------------
(* Call frames *)

Endpoints == {"login", "check", "renew", "list", "data"}

NoQuery ==
    [device |-> None, devices |-> <<>>, field |-> None, start |-> <<>>,
     end |-> <<>>, head |-> NoLimit, tail |-> NoLimit, ext |-> None]

\* what a caller observed of the session calls of the _manage_token (or
\* direct authenticate / check_token / renew_token) it is running
NoSess ==
    [entry |-> "NoManage", logins |-> 0, checks |-> 0, renews |-> 0,
     checkSt |-> <<>>, loginResp |-> <<>>, renewResp |-> <<>>]

\* the args dictionary before _fill_get_data_args fills it
NoArgs ==
    [start |-> <<>>, end |-> <<>>, headLimit |-> NoLimit,
     tailLimit |-> NoLimit, externalSensorId |-> None]

\* besides the locals of the invocation (op .. exc), a frame records what the
\* invocation did: limits the outcome of _raise_on_threshold_presence, tok0
\* the token held when it was called, net the requests it sent, dataReqs
\* those to the data endpoint, asked the devices data transport calls were
\* started for, got the bodies these calls returned, devs the devices the
\* loop goes over, managed the _manage_token calls that returned, seen and
\* lastSt the answers to the current transport call, prior the cached
\* entries of the same parameters
IdleFrame ==
    [op |-> "none", shape |-> "kw", self |-> "c1", q |-> NoQuery,
     pc |-> "idle", stage |-> 0, attempt |-> 0, flight |-> FALSE,
     hdr |-> <<>>, args |-> NoArgs, todo |-> <<>>, data |-> <<>>,
     result |-> None, exc |-> "none", limits |-> "none",
     tok0 |-> None, net |-> 0, dataReqs |-> 0, asked |-> <<>>, got |-> <<>>,
     devs |-> <<>>, listed |-> "none",
     managed |-> 0, seen |-> <<>>, lastSt |-> <<>>,
     trOut |-> "none", prior |-> {}, sess |-> NoSess,
     last |-> <<>>, rerun |-> FALSE]

\* entering _get_request / _post_request for endpoint ep
StartTransport(f, ep) ==
    [f EXCEPT !.pc = ep, !.attempt = 0, !.flight = FALSE, !.seen = <<>>,
              !.lastSt = <<>>, !.trOut = "pending"]

\* a loop over the devices that ends on a failed data request and returns
\* what it has collected
RaiseMut(f, e) ==
    IF f.pc = "data" /\ f.op # "get_data_from_device"
    THEN [f EXCEPT !.pc = "done", !.result = "dict", !.flight = FALSE]
    ELSE [f EXCEPT !.pc = "done", !.exc = e, !.flight = FALSE]

\* an exception leaves the operation: nothing in the code catches it
Raise(f, e) == [f EXCEPT !.pc = "done", !.exc = e, !.flight = FALSE]

\* the operation returns value v
ReturnValue(f, v) == [f EXCEPT !.pc = "done", !.result = v, !.flight = FALSE]

\* an assignment that puts a new key in front of the others
DictSetMut(d, k, v) ==
    IF \E i \in 1..Len(d) : d[i][1] = k
    THEN [i \in 1..Len(d) |-> IF d[i][1] = k THEN <<k, v>> ELSE d[i]]
    ELSE <<<<k, v>>>> \o d

\* data[str(device_id)] = body on the insertion-ordered dict
DictSet(d, k, v) ==
    IF \E i \in 1..Len(d) : d[i][1] = k
    THEN [i \in 1..Len(d) |-> IF d[i][1] = k THEN <<k, v>> ELSE d[i]]
    ELSE Append(d, <<k, v>>)

\* a loop that asks for every record, with or without an id
LoopNextMut(f) ==
    IF f.todo = <<>> THEN [f EXCEPT !.pc = "done", !.result = "dict", !.flight = FALSE]
    ELSE StartTransport(f, "data")

\* the head of the loop over the devices: records without "id" are skipped,
\* a data request starts for the first record with one, the collected
\* mapping is returned when none is left
RECURSIVE LoopNext(_)
LoopNext(f) ==
    IF f.todo = <<>> THEN [f EXCEPT !.pc = "done", !.result = "dict", !.flight = FALSE]
    ELSE IF ~Head(f.todo).hasId THEN LoopNext([f EXCEPT !.todo = Tail(@)])
    ELSE StartTransport(f, "data")

\* the identifiers of the records that have one, in the records' order
RECURSIVE Ids(_)
Ids(recs) ==
    IF recs = <<>> THEN <<>>
    ELSE IF Head(recs).hasId THEN <<Head(recs).id>> \o Ids(Tail(recs))
    ELSE Ids(Tail(recs))

\* the statements that follow a _manage_token() that returned
AfterManage(f0) ==
    LET f == [f0 EXCEPT !.managed = @ + 1]
    IN IF f.op = "get_devices_list" THEN StartTransport(f, "list")
       ELSE IF f.op = "get_data_from_device"
           THEN StartTransport([f EXCEPT !.todo = <<Device(f.q.device)>>,
                                         !.devs = <<f.q.device>>], "data")
       ELSE IF f.op = "get_data_from_devices"
           THEN LoopNext([f EXCEPT
                    !.todo = [i \in 1..Len(f.q.devices) |-> Device(f.q.devices[i])],
                    !.devs = f.q.devices])
       ELSE IF f.stage = 1
           THEN [f EXCEPT !.pc = "manage", !.stage = 2, !.flight = FALSE]
       ELSE StartTransport(f, "list")

\* the statements that follow a session call (login, check or renew) that
\* returned: the end of the operation when it was called directly
AfterSession(f) ==
    IF f.op \in {"authenticate", "renew_token"} THEN ReturnValue(f, None)
    ELSE AfterManage(f)

\* the value a finished query method hands to lru_cache
Returned(f) == IF f.op = "get_data_from_device" THEN f.result ELSE f.data

\* a wrapper that stores the outcome of every call, failures included
ApplyKeepMut(t, f) ==
    /\ th' = [th EXCEPT ![t] = f]
    /\ cache' =
         IF f.pc = "done" /\ f.op \in CachedOps
         THEN [cache EXCEPT ![f.op] =
                  LruPut(@, [key |-> MakeKey(f.shape, f.self, f.q),
                             val |-> Returned(f),
                             by |-> [shape |-> f.shape, self |-> f.self, q |-> f.q]])]
         ELSE cache

\* a wrapper that empties the cache of a query method when a call of it fails
ApplyMut(t, f) ==
    /\ th' = [th EXCEPT ![t] = f]
    /\ cache' =
         IF f.pc = "done" /\ f.exc = "none" /\ f.op \in CachedOps
         THEN [cache EXCEPT ![f.op] =
                  LruPut(@, [key |-> MakeKey(f.shape, f.self, f.q),
                             val |-> Returned(f),
                             by |-> [shape |-> f.shape, self |-> f.self, q |-> f.q]])]
         ELSE IF f.pc = "done" /\ f.op \in CachedOps
         THEN [cache EXCEPT ![f.op] = <<>>]
         ELSE cache

\* frame f replaces the frame of caller t; a query method that returned
\* normally has its result stored by lru_cache
Apply(t, f) ==
    /\ th' = [th EXCEPT ![t] = f]
    /\ cache' =
         IF f.pc = "done" /\ f.exc = "none" /\ f.op \in CachedOps
         THEN [cache EXCEPT ![f.op] =
                  LruPut(@, [key |-> MakeKey(f.shape, f.self, f.q),
                             val |-> Returned(f),
                             by |-> [shape |-> f.shape, self |-> f.self, q |-> f.q]])]
         ELSE cache


-----------------------------------------------------------------------------
(* The calls the callers make *)

\* "2025-10-03T12:30:00Z", "2025-10-03T12:30:00.000Z", "2025-10-03 12:30:00"
InstantZ ==
    <<"2", "0", "2", "5", "-", "1", "0", "-", "0", "3", "T",
      "1", "2", ":", "3", "0", ":", "0", "0", "Z">>
InstantMs ==
    <<"2", "0", "2", "5", "-", "1", "0", "-", "0", "3", "T",
      "1", "2", ":", "3", "0", ":", "0", "0", ".", "0", "0", "0", "Z">>
NotInstant ==
    <<"2", "0", "2", "5", "-", "1", "0", "-", "0", "3", " ",
      "1", "2", ":", "3", "0", ":", "0", "0">>

Query(device, devices, start, head, tail) ==
    [device |-> device, devices |-> devices, field |-> "TEMPERATURE_CELSIUS",
     start |-> start, end |-> InstantMs, head |-> head, tail |-> tail,
     ext |-> None]

Shapes == {"pos", "kw"}

\* calls of get_data_from_device
DeviceQueries ==
    {Query("d1", <<>>, InstantZ, Limit(1), NoLimit),
     Query("d2", <<>>, InstantZ, Limit(1), NoLimit),
     Query("d1", <<>>, InstantZ, NoLimit, NoLimit),
     Query("d1", <<>>, InstantZ, Limit(1), Limit(2)),
     Query("d1", <<>>, NotInstant, Limit(1), NoLimit)}

\* calls of get_data_from_devices
DevicesQueries ==
    {Query(None, <<"d2", "d1", "d2">>, InstantZ, NoLimit, Limit(2)),
     Query(None, <<>>, InstantZ, NoLimit, Limit(2))}

\* calls of get_data_from_all_devices
AllQueries == {Query(None, <<>>, InstantZ, NoLimit, Limit(10001))}

CallOf(op, shape, self, q) == [op |-> op, shape |-> shape, self |-> self, q |-> q]

SessionCalls ==
    {CallOf(op, "kw", c, NoQuery) :
        op \in {"authenticate", "check_token", "renew_token", "get_devices_list"},
        c \in Clients}

\* the get_data_from_device calls of the session and transport runs: one
\* valid query and the invalid ones
DeviceCalls ==
    {CallOf("get_data_from_device", "kw", c, q) :
        c \in Clients, q \in DeviceQueries \ {Query("d2", <<>>, InstantZ, Limit(1), NoLimit)}}

\* the get_data_from_device calls of the cache runs: the same query passed
\* positionally and by keyword, and a query that differs in one parameter
CacheCalls ==
    {CallOf("get_data_from_device", s, c, Query("d1", <<>>, InstantZ, Limit(1), NoLimit)) :
        s \in Shapes, c \in Clients}
    \cup {CallOf("get_data_from_device", "kw", c, q) :
        c \in Clients, q \in DeviceQueries \ {Query("d1", <<>>, InstantZ, Limit(1), NoLimit)}}

BatchCalls ==
    {CallOf("get_data_from_devices", "kw", c, q) : c \in Clients, q \in DevicesQueries}
    \cup {CallOf("get_data_from_all_devices", "kw", c, q) : c \in Clients, q \in AllQueries}

\* the limits of the validation runs: absent, at and below zero, and around
\* the ceiling of a batch
LimitValues ==
    {-1, 0, 1} \cup ((k_size_batch_limit - 1)..(k_size_batch_limit + MaxOver))

Limits == {NoLimit} \cup {Limit(n) : n \in LimitValues}

\* the calls of the validation runs: every query method, with every pair of
\* limits and with well and badly formed instants
ValidatorCalls ==
    {CallOf(m.op, "kw", c,
            [Query(m.device, m.devices, start, head, tail) EXCEPT !.end = end]) :
        m \in {[op |-> "get_data_from_device", device |-> "d1", devices |-> <<>>],
               [op |-> "get_data_from_devices", device |-> None,
                devices |-> <<"d1", "d2">>],
               [op |-> "get_data_from_all_devices", device |-> None,
                devices |-> <<>>]},
        c \in Clients, head \in Limits, tail \in Limits,
        start \in {InstantZ, NotInstant}, end \in {InstantMs, NotInstant}}

\* the characters the instants of the date runs are written with
InstantAlphabet == {"0", "9", "-", "T", ":", ".", "Z", " ", "+", "z", "t", "\n", "U+0663"}

\* the strings given as instants in the date runs: the two well-formed
\* instants with one character replaced, cut short or followed by one more
\* character, and an instant with a +HH:MM offset in place of the Z
InstantStrings ==
    LET bases == {InstantZ, InstantMs}
        offset == SubSeq(InstantZ, 1, 19) \o <<"+", "0", "2", ":", "0", "0">>
    IN UNION {{[b EXCEPT ![i] = ch] : i \in 1..Len(b), ch \in InstantAlphabet}
                 \cup {SubSeq(b, 1, n) : n \in 0..Len(b)}
                 \cup {Append(b, ch) : ch \in InstantAlphabet}
                 \cup {SubSeq(b, 1, 19) \o <<".", "Z">>} : b \in bases}
       \cup {offset, NotInstant}

\* the calls of the date runs: one instant is free, the other well formed
InstantCalls ==
    {CallOf("get_data_from_device", "kw", c,
            [Query("d1", <<>>, start, Limit(1), NoLimit) EXCEPT !.end = InstantMs]) :
        c \in Clients, start \in InstantStrings}
    \cup
    {CallOf("get_data_from_device", "kw", c,
            [Query("d1", <<>>, InstantZ, NoLimit, Limit(1)) EXCEPT !.end = end]) :
        c \in Clients, end \in InstantStrings}

\* the calls of the repetition runs: a valid single-device query, one
\* without limits, one with a badly formed start, and an all-devices query
RepeatCalls ==
    {CallOf("get_data_from_device", "kw", c, q) :
        c \in Clients,
        q \in {Query("d1", <<>>, InstantZ, Limit(1), NoLimit),
               Query("d1", <<>>, InstantZ, NoLimit, NoLimit),
               Query("d1", <<>>, NotInstant, Limit(1), NoLimit)}}
    \cup {CallOf("get_data_from_all_devices", "kw", c, q) :
        c \in Clients, q \in AllQueries}

\* the queries of the eviction runs: one more than a cache holds, told apart
\* by the head limit
NumLruQueries == lru_maxsize + 1

LruCall(op, c, k) ==
    CallOf(op, "kw", c,
           Query(IF op = "get_data_from_device" THEN "d1" ELSE None,
                 IF op = "get_data_from_devices" THEN <<"d1">> ELSE <<>>,
                 InstantZ, Limit(k), NoLimit))

\* the calls of the authenticated operations: the device list, one valid
\* query of each query method and a query without limits
AuthCalls ==
    {CallOf("get_devices_list", "kw", c, NoQuery) : c \in Clients}
    \cup {LruCall(op, c, 1) : op \in CachedOps, c \in Clients}
    \cup {CallOf("get_data_from_device", "kw", c,
                 Query("d1", <<>>, InstantZ, NoLimit, NoLimit)) : c \in Clients}

\* the three-digit status codes of HTTP
StatusCodes == 100..599

\* the calls of the status runs: one operation that sends a GET and one that
\* sends a POST
StatusCalls ==
    {CallOf(op, "kw", c, NoQuery) :
        op \in {"check_token", "authenticate"}, c \in Clients}

\* the calls of two call sites that share a client
ConcCalls == {CallOf("get_devices_list", "kw", c, NoQuery) : c \in Clients}

-----------------------------------------------------------------------------
(* Actions *)

\* caller t invokes a public operation
Call(t, c) ==
    /\ th[t].pc = "idle"
    /\ IF budget = NoBudget THEN TRUE ELSE budget[1] > 0
    /\ budget' = IF budget = NoBudget THEN budget ELSE <<budget[1] - 1>>
    /\ LET f == [IdleFrame EXCEPT !.op = c.op, !.shape = c.shape,
                                  !.self = c.self, !.q = c.q,
                                  !.tok0 = token[c.self],
                                  !.rerun = (th[t].last = <<c>>)]
       IN th' = [th EXCEPT ![t] =
                   IF c.op \in CachedOps THEN [f EXCEPT !.pc = "lru"]
                   ELSE IF c.op = "authenticate" THEN StartTransport(f, "login")
                   ELSE IF c.op = "check_token" THEN StartTransport(f, "check")
                   ELSE IF c.op = "renew_token" THEN StartTransport(f, "renew")
                   ELSE [f EXCEPT !.pc = "manage"]]
    /\ UNCHANGED <<token, cache>>

\* the lru_cache wrapper looks the call up: a hit returns the stored result
LruLookup(t) ==
    LET f == th[t]
        c == cache[f.op]
        i == LruIndex(c, MakeKey(f.shape, f.self, f.q))
        g == [f EXCEPT !.prior =
                 {[shape |-> c[j].by.shape, val |-> c[j].val] :
                    j \in {k \in 1..Len(c) :
                             c[k].by.self = f.self /\ c[k].by.q = f.q}}]
    IN /\ f.pc = "lru"
       /\ IF i # 0
          THEN /\ cache' = [cache EXCEPT ![f.op] = LruTouch(c, i)]
               /\ th' = [th EXCEPT ![t] =
                           IF f.op = "get_data_from_device"
                           THEN [g EXCEPT !.pc = "done", !.result = c[i].val]
                           ELSE [g EXCEPT !.pc = "done", !.result = "dict",
                                          !.data = c[i].val]]
          ELSE /\ cache' = cache
               /\ th' = [th EXCEPT ![t] = [g EXCEPT !.pc = "validate"]]
       /\ UNCHANGED <<token, budget>>

\* a get_data_from_device that goes from its validations to the data request
DoValidateMut(t) ==
    LET f == th[t]
        r == Validate(f.q)
    IN /\ f.pc = "validate"
       /\ th' = [th EXCEPT ![t] =
                   LET g == [f EXCEPT !.limits =
                                RaiseOnThresholdPresence(f.q.head, f.q.tail)]
                   IN IF r # "ok" THEN Raise(g, r)
                      ELSE IF f.op = "get_data_from_device"
                      THEN StartTransport(
                               [g EXCEPT !.args = FillGetDataArgs(f.q),
                                         !.todo = <<Device(f.q.device)>>,
                                         !.devs = <<f.q.device>>], "data")
                      ELSE [g EXCEPT !.pc = "manage", !.stage = 1,
                                     !.args = FillGetDataArgs(f.q)]]
       /\ UNCHANGED <<token, cache, budget>>

\* the validations and _fill_get_data_args at the head of a query method
DoValidate(t) ==
    LET f == th[t]
        r == Validate(f.q)
    IN /\ f.pc = "validate"
       /\ th' = [th EXCEPT ![t] =
                   LET g == [f EXCEPT !.limits =
                                RaiseOnThresholdPresence(f.q.head, f.q.tail)]
                   IN IF r # "ok" THEN Raise(g, r)
                      ELSE [g EXCEPT !.pc = "manage", !.stage = 1,
                                     !.args = FillGetDataArgs(f.q)]]
       /\ UNCHANGED <<token, cache, budget>>

\* _manage_token reads the token: check it when one is held, log in otherwise
ManageToken(t) ==
    LET f == th[t]
        g == [f EXCEPT !.sess = [NoSess EXCEPT !.entry = token[f.self]]]
    IN /\ f.pc = "manage"
       /\ th' = [th EXCEPT ![t] =
                   IF token[f.self] # None THEN StartTransport(g, "check")
                   ELSE StartTransport(g, "login")]
       /\ UNCHANGED <<token, cache, budget>>

\* one attempt of a transport call goes out; the headers are built from the
\* token held when the transport call starts
Send(t) ==
    LET f == th[t]
    IN /\ f.pc \in Endpoints
       /\ ~f.flight
       /\ th' = [th EXCEPT ![t] =
                   [f EXCEPT !.flight = TRUE,
                             !.attempt = @ + 1,
                             !.net = @ + 1,
                             !.dataReqs = IF f.pc = "data" THEN @ + 1 ELSE @,
                             !.asked = IF f.pc = "data" /\ f.attempt = 0
                                       THEN Append(@, Head(f.todo).id) ELSE @,
                             !.hdr = IF f.attempt # 0 THEN @
                                     ELSE IF f.pc = "login" THEN <<>>
                                     ELSE FormatHeaderToken(token[f.self]),
                             !.sess.logins = IF f.pc = "login" THEN @ + 1 ELSE @,
                             !.sess.checks = IF f.pc = "check" THEN @ + 1 ELSE @,
                             !.sess.renews = IF f.pc = "renew" THEN @ + 1 ELSE @]]
       /\ UNCHANGED <<token, cache, budget>>

\* the attempt is answered with a 4xx or 5xx status
RecvError(t, status) ==
    LET f == th[t]
        failure == Classify(status)
        out == RetryOutcome(f.attempt, failure)
        g == [f EXCEPT !.seen = Append(@, failure), !.lastSt = <<status>>,
                       !.sess.checkSt = IF f.pc = "check" THEN <<status>> ELSE @]
    IN /\ f.pc \in Endpoints
       /\ f.flight
       /\ failure # "ok"
       /\ th' = [th EXCEPT ![t] =
                   IF out = "retry" THEN [g EXCEPT !.flight = FALSE]
                   ELSE Raise([g EXCEPT !.trOut = out], out)]
       /\ UNCHANGED <<token, cache, budget>>

\* requests raises for the attempt (no connection, timeout)
NetworkFailure(t) ==
    LET f == th[t]
        out == RetryOutcome(f.attempt, "ConnectionError")
        g == [f EXCEPT !.seen = Append(@, "ConnectionError"), !.lastSt = <<>>]
    IN /\ f.pc \in Endpoints
       /\ f.flight
       /\ th' = [th EXCEPT ![t] =
                   IF out = "retry" THEN [g EXCEPT !.flight = FALSE]
                   ELSE Raise([g EXCEPT !.trOut = out], out)]
       /\ UNCHANGED <<token, cache, budget>>


\* an authenticate that drops the header value instead of storing it
AuthenticateStoreMut(status, auth, tok) == tok

\* authenticate after _post_request returned: the token it leaves
\* (headers.get gives None for a missing header)
AuthenticateStore(status, auth, tok) ==
    IF status = 200 THEN (IF auth = NoHeader THEN None ELSE auth) ELSE tok

\* renew_token after _get_request returned: the failure it raises, or "ok"
RenewRaises(status, auth) ==
    IF status = 200 /\ auth = NoHeader THEN "BadResponse" ELSE "ok"

\* a renew_token that stores headers.get("Authorization") before it looks
\* whether the header is there
RenewStoreMut(status, auth, tok) ==
    IF status = 200 THEN (IF auth = NoHeader THEN None ELSE auth) ELSE tok

\* renew_token after _get_request returned: the token it leaves
RenewStore(status, auth, tok) ==
    IF status = 200 /\ auth # NoHeader THEN auth ELSE tok

\* check_token after _get_request returned
CheckValid(status) == status = 200

\* get_devices_list after _get_request returned: the failure it raises, or "ok"
ListRaises(status, body) ==
    IF status = 200 /\ ~IsJson(body) THEN "BadResponse" ELSE "ok"

\* get_devices_list after _get_request returned: the value it returns
ListValue(status, body) == IF status = 200 THEN body ELSE None

\* a value that keeps every parsed body and the text of the others
DeviceValueMut(body) == IF IsJson(body) THEN body ELSE "raw"

\* get_data_from_device: the value returned for a response body
DeviceValue(body) == IF IsJson(body) /\ IsDict(body) THEN body ELSE None

\* an entry that keeps JSON objects only
BatchEntryMut(body) == IF IsJson(body) /\ IsDict(body) THEN body ELSE None

\* the entry of a device in the mapping of a multi-device query: the value
\* of response.json(), or response.text when the body is not JSON
BatchEntry(body) == IF IsJson(body) THEN body ELSE "raw"

\* the login request is answered with a status below 400
AuthenticateDone(t, status, auth) ==
    LET f == th[t]
        g == [f EXCEPT !.seen = Append(@, "ok"), !.trOut = "returned",
                       !.lastSt = <<status>>,
                       !.sess.loginResp = <<status, auth>>]
    IN /\ f.pc = "login"
       /\ f.flight
       /\ Classify(status) = "ok"
       /\ token' = [token EXCEPT ![f.self] = AuthenticateStore(status, auth, @)]
       /\ Apply(t, AfterSession(g))
       /\ UNCHANGED budget

\* the check request is answered with a status below 400
CheckDone(t, status) ==
    LET f == th[t]
        g == [f EXCEPT !.seen = Append(@, "ok"), !.trOut = "returned",
                       !.lastSt = <<status>>,
                       !.sess.checkSt = <<status>>]
    IN /\ f.pc = "check"
       /\ f.flight
       /\ Classify(status) = "ok"
       /\ Apply(t, IF f.op = "check_token"
                   THEN ReturnValue(g, IF CheckValid(status) THEN "True" ELSE "False")
                   ELSE IF CheckValid(status) THEN AfterManage(g)
                   ELSE StartTransport(g, "renew"))
       /\ UNCHANGED <<token, budget>>

\* the renew request is answered with a status below 400
RenewDone(t, status, auth) ==
    LET f == th[t]
        g == [f EXCEPT !.seen = Append(@, "ok"), !.trOut = "returned",
                       !.lastSt = <<status>>,
                       !.sess.renewResp = <<status, auth>>]
    IN /\ f.pc = "renew"
       /\ f.flight
       /\ Classify(status) = "ok"
       /\ token' = [token EXCEPT ![f.self] = RenewStore(status, auth, @)]
       /\ Apply(t, IF RenewRaises(status, auth) # "ok"
                   THEN Raise(g, RenewRaises(status, auth))
                   ELSE AfterSession(g))
       /\ UNCHANGED budget

\* the device list request is answered with a status below 400
ListDone(t, status, body) ==
    LET f == th[t]
        g == [f EXCEPT !.seen = Append(@, "ok"), !.trOut = "returned",
                       !.lastSt = <<status>>, !.listed = body]
        v == ListValue(status, body)
    IN /\ f.pc = "list"
       /\ f.flight
       /\ Classify(status) = "ok"
       /\ Apply(t, IF ListRaises(status, body) # "ok"
                   THEN Raise(g, ListRaises(status, body))
                   ELSE IF f.op = "get_devices_list" THEN ReturnValue(g, v)
                   ELSE IF ~IsIterable(v) THEN Raise(g, "TypeError")
                   ELSE LoopNext([g EXCEPT !.todo = Records(v),
                                           !.devs = Ids(Records(v)),
                                           !.flight = FALSE]))
       /\ UNCHANGED <<token, budget>>

\* a data request is answered with a status below 400
DataDone(t, status, body) ==
    LET f == th[t]
        g == [f EXCEPT !.seen = Append(@, "ok"), !.trOut = "returned",
                       !.lastSt = <<status>>, !.got = Append(@, body)]
    IN /\ f.pc = "data"
       /\ f.flight
       /\ Classify(status) = "ok"
       /\ Apply(t, IF f.op = "get_data_from_device"
                   THEN ReturnValue(g, DeviceValue(body))
                   ELSE LoopNext([g EXCEPT
                            !.data = DictSet(@, Head(f.todo).id, BatchEntry(body)),
                            !.todo = Tail(@), !.flight = FALSE]))
       /\ UNCHANGED <<token, budget>>

\* the caller has its result or failure and is free for its next call
Return(t) ==
    /\ th[t].pc = "done"
    /\ th' = [th EXCEPT ![t] = IdleFrame]
    /\ UNCHANGED <<token, cache, budget>>

\* the same, seen by a caller that keeps in mind the query call that just
\* failed; the call it makes next is marked as a repetition when it is the
\* same call
ReturnNoted(t) ==
    LET f == th[t]
    IN /\ f.pc = "done"
       /\ th' = [th EXCEPT ![t] =
                   [IdleFrame EXCEPT !.last =
                       IF f.op \in CachedOps /\ f.exc # "none"
                       THEN <<CallOf(f.op, f.shape, f.self, f.q)>>
                       ELSE <<>>]]
       /\ UNCHANGED <<token, cache, budget>>

-----------------------------------------------------------------------------
(* Specifications *)

Init ==
    /\ token = [c \in Clients |-> None]
    /\ cache = [m \in CachedOps |-> <<>>]
    /\ th = [t \in Threads |-> IdleFrame]
    /\ budget = NoBudget

\* the steps of a transport call under way
Transport(t) ==
    \/ Send(t)
    \/ \E status \in Statuses : RecvError(t, status)
    \/ NetworkFailure(t)

\* the steps of the session calls
Session(t) ==
    \/ ManageToken(t)
    \/ \E status \in Statuses, auth \in Tokens \cup {NoHeader} :
          AuthenticateDone(t, status, auth)
    \/ \E status \in Statuses : CheckDone(t, status)
    \/ \E status \in Statuses, auth \in Tokens \cup {NoHeader} :
          RenewDone(t, status, auth)

\* the steps of a query method
QueryMethod(t) ==
    \/ LruLookup(t)
    \/ DoValidate(t)
    \/ \E status \in Statuses, body \in DataBodies : DataDone(t, status, body)

DeviceList(t) ==
    \E status \in Statuses, body \in ListBodies : ListDone(t, status, body)

\* one caller, one call at a time (the synchronous use of the client): the
\* session operations, the device list and single-device queries
Next ==
    \/ \E c \in SessionCalls \cup DeviceCalls : Call(MainThread, c)
    \/ Transport(MainThread)
    \/ Session(MainThread)
    \/ QueryMethod(MainThread)
    \/ DeviceList(MainThread)
    \/ Return(MainThread)

Spec == Init /\ [][Next]_vars

\* one caller issuing single-device queries one after the other
NextCache ==
    \/ \E c \in CacheCalls : Call(MainThread, c)
    \/ Transport(MainThread)
    \/ Session(MainThread)
    \/ QueryMethod(MainThread)
    \/ Return(MainThread)

SpecCache == Init /\ [][NextCache]_vars

\* one caller issuing multi-device and all-device queries; the session
\* endpoints answer at once (200, 204 or 401) and hand out one token, the list
\* and data endpoints answer anything or not at all, and data requests are
\* answered with one JSON object or with text
NextBatch ==
    \/ \E c \in BatchCalls : Call(MainThread, c)
    \/ Send(MainThread)
    \/ \E status \in Statuses :
          /\ th[MainThread].pc \in {"list", "data"} \/ status = 401
          /\ RecvError(MainThread, status)
    \/ th[MainThread].pc \in {"list", "data"} /\ NetworkFailure(MainThread)
    \/ ManageToken(MainThread)
    \/ \E auth \in {TokenName(1), NoHeader} :
          AuthenticateDone(MainThread, 200, auth)
    \/ \E status \in {200, 204} : CheckDone(MainThread, status)
    \/ \E auth \in {TokenName(1), NoHeader} : RenewDone(MainThread, 200, auth)
    \/ LruLookup(MainThread)
    \/ DoValidate(MainThread)
    \/ \E status \in Statuses, body \in {PayloadName(1), "raw"} :
          DataDone(MainThread, status, body)
    \/ DeviceList(MainThread)
    \/ Return(MainThread)

SpecBatch == Init /\ [][NextBatch]_vars

\* two call sites using one client at the same time: nothing in the code
\* orders their steps. The server answers every request (no 5xx, no network
\* failure) and the device list is well formed
NextConc ==
    \E t \in Threads :
        \/ \E c \in ConcCalls : Call(t, c)
        \/ Send(t)
        \/ RecvError(t, 401)
        \/ ManageToken(t)
        \/ \E auth \in Tokens \cup {NoHeader} : AuthenticateDone(t, 200, auth)
        \/ \E status \in {200, 204} : CheckDone(t, status)
        \/ \E auth \in Tokens \cup {NoHeader} : RenewDone(t, 200, auth)
        \/ ListDone(t, 200, "listA")
        \/ Return(t)

SpecConc == Init /\ [][NextConc]_vars

\* one caller issuing queries with every pair of limits and with well and
\* badly formed instants; the server accepts the credentials and the token,
\* lists the devices and refuses every data request
NextValidate ==
    \/ \E c \in ValidatorCalls : Call(MainThread, c)
    \/ LruLookup(MainThread)
    \/ DoValidate(MainThread)
    \/ ManageToken(MainThread)
    \/ Send(MainThread)
    \/ AuthenticateDone(MainThread, 200, TokenName(1))
    \/ CheckDone(MainThread, 200)
    \/ ListDone(MainThread, 200, "listA")
    \/ th[MainThread].pc = "data" /\ RecvError(MainThread, 401)
    \/ Return(MainThread)

SpecValidate == Init /\ [][NextValidate]_vars

\* the repetition runs: a caller that makes query calls one after the
\* other, against a server that answers anything at the list and data
\* endpoints and accepts, refuses or fails the session calls
NextRepeat ==
    \/ \E c \in RepeatCalls : Call(MainThread, c)
    \/ Transport(MainThread)
    \/ ManageToken(MainThread)
    \/ \E auth \in {TokenName(1), NoHeader} :
          AuthenticateDone(MainThread, 200, auth)
    \/ \E status \in {200, 204} : CheckDone(MainThread, status)
    \/ \E auth \in {TokenName(1), NoHeader} : RenewDone(MainThread, 200, auth)
    \/ LruLookup(MainThread)
    \/ DoValidate(MainThread)
    \/ \E body \in {PayloadName(1), "raw"} : DataDone(MainThread, 200, body)
    \/ \E body \in {"listA", "raw"} : ListDone(MainThread, 200, body)
    \/ ReturnNoted(MainThread)

SpecRepeat == Init /\ [][NextRepeat]_vars

\* the date runs: get_data_from_device with instants of every shape, against
\* the server of the validator runs
NextInstant ==
    \/ \E c \in InstantCalls : Call(MainThread, c)
    \/ LruLookup(MainThread)
    \/ DoValidate(MainThread)
    \/ ManageToken(MainThread)
    \/ Send(MainThread)
    \/ AuthenticateDone(MainThread, 200, TokenName(1))
    \/ CheckDone(MainThread, 200)
    \/ th[MainThread].pc = "data" /\ RecvError(MainThread, 401)
    \/ Return(MainThread)

SpecInstant == Init /\ [][NextInstant]_vars

\* one caller using every authenticated operation; the server answers at
\* once, the session endpoints with 200, 204 or 401 and one token, the list
\* and data endpoints with 200 or 401
NextAuth ==
    \/ \E c \in AuthCalls : Call(MainThread, c)
    \/ LruLookup(MainThread)
    \/ DoValidate(MainThread)
    \/ ManageToken(MainThread)
    \/ Send(MainThread)
    \/ RecvError(MainThread, 401)
    \/ \E auth \in {TokenName(1), NoHeader} :
          AuthenticateDone(MainThread, 200, auth)
    \/ \E status \in {200, 204} : CheckDone(MainThread, status)
    \/ \E auth \in {TokenName(1), NoHeader} : RenewDone(MainThread, 200, auth)
    \/ \E body \in {"listA", "listB"} : ListDone(MainThread, 200, body)
    \/ \E body \in {PayloadName(1), "raw"} : DataDone(MainThread, 200, body)
    \/ Return(MainThread)

SpecAuth == Init /\ [][NextAuth]_vars

\* one caller sending a GET (check_token) or a POST (authenticate) that the
\* server answers with any status code
NextStatus ==
    \/ \E c \in StatusCalls : Call(MainThread, c)
    \/ Send(MainThread)
    \/ \E status \in StatusCodes : RecvError(MainThread, status)
    \/ \E status \in StatusCodes :
          AuthenticateDone(MainThread, status, TokenName(1))
    \/ \E status \in StatusCodes : CheckDone(MainThread, status)
    \/ Return(MainThread)

SpecStatus == Init /\ [][NextStatus]_vars

\* a caller that has lru_maxsize + MaxCalls calls to make
InitLru ==
    /\ token = [c \in Clients |-> None]
    /\ cache = [m \in CachedOps |-> <<>>]
    /\ th = [t \in Threads |-> IdleFrame]
    /\ budget = <<lru_maxsize + MaxCalls>>

\* one caller and a server that answers every request with 200: the caller
\* issues distinct queries of a method until its cache is full, then any of
\* NumLruQueries queries
NextLru ==
    \/ \E op \in CachedOps, c \in Clients, k \in 1..NumLruQueries :
          /\ Len(cache[op]) < lru_maxsize => k = Len(cache[op]) + 1
          /\ Call(MainThread, LruCall(op, c, k))
    \/ LruLookup(MainThread)
    \/ DoValidate(MainThread)
    \/ ManageToken(MainThread)
    \/ Send(MainThread)
    \/ AuthenticateDone(MainThread, 200, TokenName(1))
    \/ CheckDone(MainThread, 200)
    \/ ListDone(MainThread, 200, "listA")
    \/ DataDone(MainThread, 200, PayloadName(1))
    \/ Return(MainThread)

SpecLru == InitLru /\ [][NextLru]_vars

\* two instances of SyconApi in one process
Instances == Clients \cup {"c2"}

InitIso ==
    /\ token = [c \in Instances |-> None]
    /\ cache = [m \in CachedOps |-> <<>>]
    /\ th = [t \in Threads |-> IdleFrame]
    /\ budget = <<lru_maxsize + MaxCalls>>

\* the isolation runs: one caller uses two instances against a server that
\* answers every request with 200; the first instance makes one query, the
\* second makes distinct queries until the cache of the method is full,
\* then either makes any of NumLruQueries queries
NextIso ==
    \/ \E c \in Instances, k \in 1..NumLruQueries :
          /\ Len(cache["get_data_from_device"]) < lru_maxsize
                => /\ k = Len(cache["get_data_from_device"]) + 1
                   /\ c = IF k = 1 THEN "c1" ELSE "c2"
          /\ Call(MainThread, LruCall("get_data_from_device", c, k))
    \/ LruLookup(MainThread)
    \/ DoValidate(MainThread)
    \/ ManageToken(MainThread)
    \/ Send(MainThread)
    \/ \E i \in 1..NumTokens : AuthenticateDone(MainThread, 200, TokenName(i))
    \/ CheckDone(MainThread, 200)
    \/ DataDone(MainThread, 200, PayloadName(1))
    \/ Return(MainThread)

SpecIso == InitIso /\ [][NextIso]_vars

\* the calls of the termination runs: every public operation
LiveCalls ==
    SessionCalls \cup {LruCall(op, c, 1) : op \in CachedOps, c \in Clients}

\* a step of the operation under way: of the client, or of the network
\* call it waits for (requests returns a response or raises within its
\* timeout, tenacity waits at most 15 s before the next attempt)
Progress(t) ==
    \/ Transport(t)
    \/ ManageToken(t)
    \/ \E auth \in {TokenName(1), NoHeader} : AuthenticateDone(t, 200, auth)
    \/ \E status \in {200, 204} : CheckDone(t, status)
    \/ \E auth \in {TokenName(1), NoHeader} : RenewDone(t, 200, auth)
    \/ LruLookup(t)
    \/ DoValidate(t)
    \/ \E body \in {PayloadName(1), "raw"} : DataDone(t, 200, body)
    \/ \E status \in {200, 204} : ListDone(t, status, "listA")
    \/ Return(t)

NextLive ==
    \/ \E c \in LiveCalls : Call(MainThread, c)
    \/ Progress(MainThread)

\* the termination runs: the caller makes any public call, the server
\* answers anything; an operation under way is never left without its next
\* step
SpecLive == Init /\ [][NextLive]_vars /\ WF_vars(Progress(MainThread))

-----------------------------------------------------------------------------
(* Properties *)

AllServerError(seen) == \A i \in 1..Len(seen) : seen[i] = "ServerError"

\* the frame runs (or ran) a _manage_token that found a token held
ManagedWithToken(f) == f.sess.entry \notin {"NoManage", None}

\* the transport call of the frame is over
TransportOver(f) == f.trOut \notin {"none", "pending"}

\* C1: when _manage_token runs with a token held and the check endpoint
\* answers 401, renew_token is called, so the rejection alone does not make
\* the operation fail; once the renewal answered 200 with a new token, that
\* token is the one held.
C1_RejectedTokenIsRenewed ==
    \A t \in Threads :
        LET f == th[t]
        IN ManagedWithToken(f) /\ f.sess.checkSt = <<401>>
           => /\ f.pc = "renew" \/ f.sess.renews > 0
              /\ ~(f.exc = "BadResponse" /\ f.sess.renews = 0)
              /\ (f.sess.renewResp # <<>> /\ f.sess.renewResp[1] = 200
                  /\ f.sess.renewResp[2] # NoHeader
                    => token[f.self] = f.sess.renewResp[2])

\* C2: check_token returns True when the check endpoint answers 200 and
\* False for any other answer, a 401 included, and raises nothing.
C2_CheckTokenReturnsBool ==
    \A t \in Threads :
        LET f == th[t]
        IN f.op = "check_token" /\ f.pc = "done" /\ f.sess.checkSt # <<>>
           /\ f.seen[Len(f.seen)] # "ConnectionError"
           => /\ f.exc = "none"
              /\ f.result = IF f.sess.checkSt[1] = 200 THEN "True" ELSE "False"

\* C3: once get_data_from_device has returned a result for some parameters
\* and the entry is still cached, a later call with identical parameters
\* issues no network call and returns that result; a call whose parameters
\* differ from every cached one and that returns a result has issued a
\* network call.
C3_IdenticalParametersHit ==
    \A t \in Threads :
        LET f == th[t]
        IN f.op = "get_data_from_device" /\ f.pc \notin {"idle", "lru"}
           => /\ f.prior # {}
                   => /\ f.net = 0 /\ f.pc = "done" /\ f.exc = "none"
                      /\ \E p \in f.prior : f.result = p.val
              /\ f.prior = {} /\ f.pc = "done" /\ f.exc = "none" => f.net >= 1

\* C4: a transport call whose every attempt is answered 5xx makes exactly 3
\* attempts; one answered 4xx, or failing otherwise than with ServerError,
\* makes exactly 1 attempt and that failure is what the caller gets; only
\* a ServerError is ever followed by another attempt.
C4_AttemptCounts ==
    \A t \in Threads :
        LET f == th[t]
        IN /\ f.attempt <= 3
           /\ \A i \in 1..(Len(f.seen) - 1) : f.seen[i] = "ServerError"
           /\ TransportOver(f)
                => /\ AllServerError(f.seen) => Len(f.seen) = 3 /\ f.attempt = 3
                   /\ f.seen[1] \in {"BadResponse", "ConnectionError"}
                        => /\ Len(f.seen) = 1 /\ f.attempt = 1
                           /\ f.pc = "done" /\ f.exc = f.seen[1]

C4_Witness ==
    \E t \in Threads :
        /\ th[t].seen = <<"ServerError", "ServerError", "ServerError">>
        /\ th[t].attempt = 3
        /\ TransportOver(th[t])

\* C5: when all 3 attempts of a transport call are answered 5xx, the failure
\* the caller gets is the last SyconApiServerErrorResponseException itself.
C5_LastServerErrorPropagates ==
    \A t \in Threads :
        LET f == th[t]
        IN TransportOver(f) /\ Len(f.seen) = 3 /\ AllServerError(f.seen)
           => f.pc = "done" /\ f.exc = "ServerError"

\* C6: authenticate that receives a 200 login response without an
\* Authorization header fails with SyconApiBadResponseException.
C6_LoginWithoutHeaderFails ==
    \A t \in Threads :
        th[t].sess.loginResp = <<200, NoHeader>>
        => th[t].pc = "done" /\ th[t].exc = "BadResponse"

\* C7: a _manage_token that finds no token held runs authenticate: one login
\* transport call (further attempts only after 5xx answers), no check and no
\* renew request; once the login answered 200 with an Authorization header,
\* the token held is that header's value.
C7_FirstUseLogsIn ==
    \A t \in Threads :
        LET f == th[t]
        IN f.sess.entry = None
           => /\ f.sess.checks = 0 /\ f.sess.renews = 0
              /\ f.pc \notin {"check", "renew"}
              /\ f.sess.logins <= 3
              /\ f.pc = "login" => f.sess.logins = f.attempt /\ AllServerError(f.seen)
              /\ f.pc \in {"list", "data"} => f.sess.logins >= 1
              /\ (f.sess.loginResp # <<>> /\ f.sess.loginResp[1] = 200
                  /\ f.sess.loginResp[2] # NoHeader
                    => token[f.self] = f.sess.loginResp[2])

C7_Witness ==
    \E t \in Threads :
        /\ th[t].sess.entry = None
        /\ th[t].sess.loginResp = <<200, "tokB">>
        /\ token[th[t].self] = "tokB"
        /\ th[t].pc = "done" /\ th[t].exc = "none"

\* C8: renew_token that receives 200 without an Authorization header fails
\* with SyconApiBadResponseException and leaves the token it sent held; with
\* an Authorization header the token held becomes that header's value.
C8_RenewStoresHeader ==
    \A t \in Threads :
        LET f == th[t]
        IN f.sess.renewResp # <<>> /\ f.sess.renewResp[1] = 200
           => IF f.sess.renewResp[2] = NoHeader
              THEN /\ f.pc = "done" /\ f.exc = "BadResponse"
                   /\ FormatHeaderToken(token[f.self]) = f.hdr
              ELSE token[f.self] = f.sess.renewResp[2]

C8_Witness ==
    \E t \in Threads :
        /\ th[t].sess.renewResp = <<200, NoHeader>>
        /\ th[t].exc = "BadResponse"
        /\ token[th[t].self] \in Tokens

\* C9: with two call sites using one client, at most one login or renew
\* request is in flight at any time, and no caller is about to write a token
\* over one that another caller wrote after it read the token.
C9_OneAuthInFlight ==
    /\ Cardinality({t \in Threads :
            th[t].pc \in {"login", "renew"} /\ th[t].flight}) <= 1
    /\ \A t \in Threads :
          th[t].pc \in {"login", "renew"} /\ th[t].sess.entry # "NoManage"
          => token[th[t].self] = th[t].sess.entry

\* C10: every failure that reaches the caller of a public operation is one
\* of MissingParameters, InvalidParameters, BadResponse, ServerError.
C10_OnlyTypedFailures ==
    \A t \in Threads : th[t].exc \in Typed \cup {"none"}


\* the query fails one of the validations: the limits are both absent or both
\* present, or the start or the end is not an ISO-8601 instant
InvalidQuery(q) ==
    \/ q.head = NoLimit /\ q.tail = NoLimit
    \/ q.head # NoLimit /\ q.tail # NoLimit
    \/ ~IsIsoInstant(q.start)
    \/ ~IsIsoInstant(q.end)

\* the call missed the cache and ran the validations of its query method
Validated(f) == f.op \in CachedOps /\ f.limits # "none"

\* the call was served from the cache
Served(f) == f.op \in CachedOps /\ f.pc = "done" /\ f.limits = "none"

\* C11: a call of get_data_from_device, get_data_from_devices or
\* get_data_from_all_devices whose limits or instants are invalid ends with
\* MissingParameters or InvalidParameters, sends no request at all (no
\* login, check, renewal, listing or data request), never enters
\* _manage_token and leaves the token as it was when the call was made.
C11_ValidationFailsBeforeNetwork ==
    \A t \in Threads :
        LET f == th[t]
        IN f.op \in CachedOps /\ InvalidQuery(f.q)
           => /\ f.net = 0
              /\ f.dataReqs = 0
              /\ f.managed = 0
              /\ f.sess = NoSess
              /\ token[f.self] = f.tok0
              /\ ~Served(f)
              /\ Validated(f)
                 => /\ f.pc = "done"
                    /\ f.exc \in {"MissingParameters", "InvalidParameters"}

\* an all-devices query with a badly formed end has failed while a token is
\* held
C11_Witness ==
    \E t \in Threads :
        LET f == th[t]
        IN /\ f.op = "get_data_from_all_devices"
           /\ f.pc = "done"
           /\ f.exc = "InvalidParameters"
           /\ f.limits = "ok"
           /\ ~IsIsoInstant(f.q.end)
           /\ f.tok0 # None


\* the elements of a sequence in the order of their first occurrence
RECURSIVE FirstOccurrences(_)
FirstOccurrences(seq) ==
    IF seq = <<>> THEN <<>>
    ELSE LET front == FirstOccurrences(SubSeq(seq, 1, Len(seq) - 1))
             last == seq[Len(seq)]
         IN IF \E i \in 1..Len(front) : front[i] = last THEN front
            ELSE Append(front, last)

\* the keys of a mapping in their order
Keys(d) == [i \in 1..Len(d) |-> d[i][1]]

\* the data request of the last device asked is not answered yet, or failed
LastUnanswered(f) ==
    /\ f.asked # <<>>
    /\ \/ f.pc = "data" /\ f.attempt > 0
       \/ f.pc = "done" /\ f.exc # "none"

\* the devices whose data request was answered and handled
Answered(f) ==
    IF LastUnanswered(f) THEN SubSeq(f.asked, 1, Len(f.asked) - 1) ELSE f.asked

\* C12: in a call of a query method that misses the cache, _manage_token has
\* returned before the first data request goes out; the data requests go out
\* in the order of the identifiers supplied (or of the records listed), one
\* at a time (a device is asked only when every device before it is
\* answered), and the keys of the mapping under construction and of the
\* mapping returned follow that order.
C12_SessionFirstThenDevicesInOrder ==
    \A t \in Threads :
        LET f == th[t]
        IN Validated(f)
           => /\ f.asked # <<>> \/ f.dataReqs > 0 => f.managed >= 1
              /\ f.op = "get_data_from_all_devices" /\ f.asked # <<>>
                 => f.managed = 2
              /\ Len(f.asked) <= Len(f.devs)
              /\ f.asked = SubSeq(f.devs, 1, Len(f.asked))
              /\ f.op # "get_data_from_device"
                 => Keys(f.data) = FirstOccurrences(Answered(f))
              /\ f.op = "get_data_from_devices" /\ f.managed > 0
                 => f.devs = f.q.devices
              /\ f.pc = "done" /\ f.exc = "none" => f.asked = f.devs

\* a multi-device query is asking its third device, the first two answered
C12_Witness ==
    \E t \in Threads :
        LET f == th[t]
        IN /\ f.op = "get_data_from_devices"
           /\ f.pc = "data"
           /\ f.flight
           /\ f.asked = <<"d2", "d1", "d2">>
           /\ Keys(f.data) = <<"d2", "d1">>


\* the head limits of the queries a cache holds, least recently used first
LruHeads(m) == [i \in 1..Len(cache[m]) |-> cache[m][i].by.q.head[1]]

\* the entries of cache c stored under another key than k, in their order
OtherEntries(c, k) == SelectSeq(c, LAMBDA e : e.key # k)

\* C13: the cache of each query method never holds more than 10 entries. A
\* use of a query (a hit as well as the storing of a result) makes its entry
\* the most recently used one and leaves the order of the others as it was;
\* when a result is stored for a query that is not held while 10 entries
\* are, exactly the least recently used entry is dropped. A call is served
\* from the cache, without any request, exactly when its query is held, so
\* the dropped query needs the network again and the retained ones do not.
C13_LruEviction ==
    [][\A m \in CachedOps :
          LET old == cache[m]
              new == cache'[m]
              used == new[Len(new)]
          IN /\ Len(new) <= lru_maxsize
             /\ new # old
                => /\ Len(new) >= 1
                   /\ IF \E i \in 1..Len(old) : old[i].key = used.key
                      THEN /\ OtherEntries(old, used.key)
                                = SubSeq(new, 1, Len(new) - 1)
                           /\ \E i \in 1..Len(old) : old[i] = used
                      ELSE IF Len(old) = lru_maxsize
                      THEN SubSeq(new, 1, Len(new) - 1) = Tail(old)
                      ELSE SubSeq(new, 1, Len(new) - 1) = old
             /\ \A t \in Threads :
                   LET f == th[t]
                       g == th'[t]
                       held == \E i \in 1..Len(old) :
                                  old[i].key = MakeKey(f.shape, f.self, f.q)
                   IN /\ f.op = m /\ f.pc = "lru" /\ g.pc # "lru"
                         => /\ held <=> Served(g)
                            /\ held => /\ g.net = 0
                                       /\ new[Len(new)].key
                                            = MakeKey(f.shape, f.self, f.q)
                      /\ g.op = m /\ g.pc = "done" /\ g.exc = "none" /\ Validated(g)
                         => /\ g.net >= 1
                            /\ g.dataReqs >= 1 \/ m = "get_data_from_all_devices"
                            /\ new # <<>>
                            /\ new[Len(new)].key = MakeKey(g.shape, g.self, g.q)
    ]_vars

\* the cache of get_data_from_device was filled with the queries 1 to 10,
\* query 1 was then served from it, query 11 was stored in the place of
\* query 2, and query 2, issued again, has needed the network
C13_Witness ==
    \E t \in Threads :
        LET f == th[t]
        IN /\ f.op = "get_data_from_device"
           /\ f.pc = "done"
           /\ f.exc = "none"
           /\ f.q.head = Limit(2)
           /\ Validated(f)
           /\ f.dataReqs = 1
           /\ LruHeads(f.op) = <<4, 5, 6, 7, 8, 9, 10, 1, 11, 2>>


BatchOps == {"get_data_from_devices", "get_data_from_all_devices"}

\* the data request of the last device asked failed at transport level: a
\* 4xx answer, or 5xx answers to every attempt the retry policy allows
DataCallFailed(f) ==
    /\ f.op \in BatchOps
    /\ f.asked # <<>>
    /\ f.seen # <<>>
    /\ \/ f.seen[Len(f.seen)] = "BadResponse"
       \/ AllServerError(f.seen) /\ Len(f.seen) = stop_after_attempt

\* C14: when the data request of the k-th device of get_data_from_devices or
\* get_data_from_all_devices fails at transport level, the call ends with
\* that failure and returns nothing; the devices asked are the first k of
\* the batch, the mapping collected so far is neither returned nor cached.
C14_BatchAbortsOnTransportFailure ==
    \A t \in Threads :
        LET f == th[t]
        IN DataCallFailed(f)
           => /\ f.pc = "done"
              /\ f.exc \in {"BadResponse", "RetryError"}
              /\ f.exc = f.trOut
              /\ f.result = None
              /\ f.asked = SubSeq(f.devs, 1, Len(f.asked))
              /\ Keys(f.data) = FirstOccurrences(SubSeq(f.asked, 1, Len(f.asked) - 1))
              /\ LruIndex(cache[f.op], MakeKey(f.shape, f.self, f.q)) = 0

\* the second of three devices was refused with a 4xx answer after the first
\* was collected
C14_Witness ==
    \E t \in Threads :
        LET f == th[t]
        IN /\ DataCallFailed(f)
           /\ f.exc = "BadResponse"
           /\ f.devs = <<"d2", "d1", "d2">>
           /\ f.asked = <<"d2", "d1">>
           /\ Len(f.data) = 1
           /\ f.pc = "done"


\* the last position of device k among the devices asked
LastAsked(f, k) ==
    CHOOSE i \in 1..Len(f.asked) :
        f.asked[i] = k /\ \A j \in (i + 1)..Len(f.asked) : f.asked[j] # k

\* C15: a get_data_from_devices call over n identifiers that misses the
\* cache and ends normally has made exactly n data transport calls, one per
\* identifier in the order given (n requests when no attempt had to be
\* retried, never more than 3 per identifier), and returns a mapping
\* with a key for every identifier; the entry of a device is the body it
\* answered last, the raw text when that body is not JSON, and the devices
\* after such a device are asked all the same. The same call made again is
\* served from the cache: it returns the stored mapping and sends no request.
C15_DevicesMapping ==
    \A t \in Threads :
        LET f == th[t]
            n == Len(f.q.devices)
        IN f.op = "get_data_from_devices" /\ f.pc = "done" /\ f.exc = "none"
           => /\ f.result = "dict"
              /\ Validated(f)
                 => /\ f.asked = f.q.devices
                    /\ Len(f.got) = n
                    /\ f.dataReqs >= n
                    /\ f.dataReqs <= n * stop_after_attempt
                    /\ f.net >= f.dataReqs + 1
                    /\ \A i \in 1..n :
                          \E j \in 1..Len(f.data) : f.data[j][1] = f.q.devices[i]
                    /\ Len(f.data) = Cardinality({f.q.devices[i] : i \in 1..n})
                    /\ \A j \in 1..Len(f.data) :
                          f.data[j][2] = f.got[LastAsked(f, f.data[j][1])]
              /\ Served(f)
                 => /\ f.net = 0
                    /\ f.dataReqs = 0
                    /\ \E p \in f.prior : p.val = f.data

\* the call over d2, d1, d2 has ended with three requests: d2 answered text
\* and then an object, d1 text
C15_Witness ==
    \E t \in Threads :
        LET f == th[t]
        IN /\ f.op = "get_data_from_devices"
           /\ f.pc = "done"
           /\ f.exc = "none"
           /\ f.q.devices = <<"d2", "d1", "d2">>
           /\ f.dataReqs = 3
           /\ f.got = <<"raw", "raw", PayloadName(1)>>
           /\ f.data = <<<<"d2", PayloadName(1)>>, <<"d1", "raw">>>>


\* the failures a call ends with when the server refuses or fails a request
TransportFailures == {"BadResponse", "ServerError", "RetryError"}

\* C16: a step in which a call fails with BadResponse or with the failure
\* that follows 5xx answers changes no cache: every entry stays, with its
\* value and its place. A call whose query is held is then still served with
\* the value stored, without any request.
C16_FailureKeepsCache ==
    [][\A t \in Threads :
          LET f == th[t]
              g == th'[t]
              c == cache[f.op]
              i == LruIndex(c, MakeKey(f.shape, f.self, f.q))
          IN /\ f.exc = "none" /\ g.exc \in TransportFailures => cache' = cache
             /\ f.op = "get_data_from_device" /\ f.pc = "lru" /\ i # 0
                => /\ Served(g)
                   /\ g.result = c[i].val
                   /\ g.net = 0
    ]_vars

\* a query has failed with BadResponse while the result of another query is
\* held
C16_Witness ==
    \E t \in Threads :
        LET f == th[t]
        IN /\ f.op = "get_data_from_device"
           /\ f.pc = "done"
           /\ f.exc = "BadResponse"
           /\ f.dataReqs = 1
           /\ \E i \in 1..Len(cache[f.op]) :
                 /\ cache[f.op][i].by.q # f.q
                 /\ cache[f.op][i].val \in Objects


AuthenticatedOps == CachedOps \cup {"get_devices_list"}

\* the call has ended normally and its parameters are valid
YieldsResult(f) ==
    /\ f.op \in AuthenticatedOps
    /\ f.pc = "done"
    /\ f.exc = "none"
    /\ f.op \in CachedOps => ~InvalidQuery(f.q)

\* C17 (as stated): every call of get_devices_list, get_data_from_device,
\* get_data_from_devices or get_data_from_all_devices with valid parameters
\* that yields a result has run _manage_token before.
C17_ManageBeforeResult ==
    \A t \in Threads : YieldsResult(th[t]) => th[t].managed >= 1

\* C17 (amended): every call of get_devices_list, and every call of a query
\* method that is not served from the cache, has run _manage_token to its
\* end before it yields a result (twice in get_data_from_all_devices); a
\* call served from the cache yields the stored result without running the
\* validations, _manage_token or any request.
C17_ManageBeforeResultOnMiss ==
    \A t \in Threads :
        LET f == th[t]
        IN YieldsResult(f)
           => IF Served(f)
              THEN f.managed = 0 /\ f.sess = NoSess /\ f.net = 0
              ELSE /\ f.managed >= 1
                   /\ f.op = "get_data_from_all_devices" => f.managed = 2
                   /\ f.sess.entry # "NoManage"
                   /\ f.net >= 1

\* a multi-device query called with a token held has missed the cache, run
\* _manage_token and returned its mapping
C17_Witness ==
    \E t \in Threads :
        LET f == th[t]
        IN /\ YieldsResult(f)
           /\ f.op = "get_data_from_devices"
           /\ ~Served(f)
           /\ f.tok0 # None
           /\ f.managed = 1
           /\ f.result = "dict"


\* the status the caller of the transport call was handed, <<>> when none
StatusHandedBack(f) ==
    IF f.op = "check_token" THEN f.sess.checkSt
    ELSE IF f.sess.loginResp = <<>> THEN <<>>
    ELSE <<f.sess.loginResp[1]>>

\* C18: whatever status code answers an attempt of a GET (check_token) or of
\* a POST (authenticate): with a status from 200 to 299 the attempt returns
\* and the caller of the transport is handed the response with that status;
\* with a status from 400 to 499 the attempt raises BadResponse, which ends
\* the call at that attempt; with a status from 500 to 599 the attempt
\* raises ServerError (which the retry policy then handles).
C18_StatusClasses ==
    \A t \in Threads :
        LET f == th[t]
            s == f.lastSt[1]
            outcome == f.seen[Len(f.seen)]
        IN f.op \in {"check_token", "authenticate"} /\ f.lastSt # <<>>
           => /\ f.seen # <<>>
              /\ s >= 200 /\ s <= 299
                 => /\ outcome = "ok"
                    /\ f.trOut = "returned"
                    /\ f.exc = "none"
                    /\ StatusHandedBack(f) = <<s>>
              /\ s >= 400 /\ s <= 499
                 => /\ outcome = "BadResponse"
                    /\ f.exc = "BadResponse"
                    /\ f.attempt = Len(f.seen)
                    /\ f.pc = "done"
              /\ s >= 500 /\ s <= 599
                 => /\ outcome = "ServerError"
                    /\ f.trOut \in {"pending", "RetryError"}
                    /\ f.result = None

\* the first attempt of the POST of authenticate was answered 500
C18_Witness ==
    \E t \in Threads :
        LET f == th[t]
        IN /\ f.op = "authenticate"
           /\ f.lastSt = <<500>>
           /\ f.seen = <<"ServerError">>
           /\ f.attempt = 1


\* C19: the limit validation of a query method raises MissingParameters when
\* head and tail limit are both absent, InvalidParameters when both are
\* present, whatever their values (0 and negative ones included), and
\* nothing when exactly one is present; in the first two cases the call
\* ends with that failure.
C19_LimitPresence ==
    \A t \in Threads :
        LET f == th[t]
            head == f.q.head
            tail == f.q.tail
        IN Validated(f)
           => /\ head = NoLimit /\ tail = NoLimit
                 => f.limits = "MissingParameters" /\ f.exc = "MissingParameters"
              /\ head # NoLimit /\ tail # NoLimit
                 => f.limits = "InvalidParameters" /\ f.exc = "InvalidParameters"
              /\ (head = NoLimit) # (tail = NoLimit)
                 => /\ f.limits = "ok"
                    /\ f.exc # "MissingParameters"
                    /\ f.exc = "InvalidParameters"
                       => ~IsIsoInstant(f.q.start) \/ ~IsIsoInstant(f.q.end)

\* a query with a head limit of 0 and no tail limit has passed the limit
\* validation and sent its data request
C19_Witness ==
    \E t \in Threads :
        LET f == th[t]
        IN /\ Validated(f)
           /\ f.q.head = Limit(0)
           /\ f.q.tail = NoLimit
           /\ f.limits = "ok"
           /\ f.dataReqs = 1

\* C20: the limit a query method places in the arguments of its data
\* requests is 10000 for every head or tail limit above 10000 and the limit
\* given for every other one (an absent limit stays absent); so no data
\* request carries a headLimit or tailLimit above 10000.
C20_LimitCapped ==
    \A t \in Threads :
        LET f == th[t]
            Placed(given, sent) ==
                IF given = NoLimit THEN sent = NoLimit
                ELSE /\ sent # NoLimit
                     /\ given[1] > k_size_batch_limit => sent[1] = k_size_batch_limit
                     /\ given[1] <= k_size_batch_limit => sent[1] = given[1]
                     /\ sent[1] <= k_size_batch_limit
        IN /\ Validated(f) /\ f.exc \notin {"MissingParameters", "InvalidParameters"}
              => /\ Placed(f.q.head, f.args.headLimit)
                 /\ Placed(f.q.tail, f.args.tailLimit)
                 /\ f.args.start = f.q.start
                 /\ f.args.end = f.q.end
           /\ f.dataReqs > 0 => f.args # NoArgs

\* a data request of an all-devices query with a tail limit of 10001 is in
\* flight with a tailLimit of 10000
C20_Witness ==
    \E t \in Threads :
        LET f == th[t]
        IN /\ f.op = "get_data_from_all_devices"
           /\ f.pc = "data"
           /\ f.flight
           /\ f.q.tail = Limit(k_size_batch_limit + 1)
           /\ f.args.tailLimit = Limit(k_size_batch_limit)

\* the form YYYY-MM-DDTHH:MM:SS[.fraction]Z of an ISO-8601 instant: a digit
\* 0..9 in each position of the date and the time, optional fractional
\* seconds of one digit or more, and a literal Z at the end
InstantForm(s) ==
    LET digit(i) == s[i] \in {"0", "1", "2", "3", "4", "5", "6", "7", "8", "9"}
    IN /\ Len(s) >= 20
       /\ \A i \in {1, 2, 3, 4, 6, 7, 9, 10, 12, 13, 15, 16, 18, 19} : digit(i)
       /\ s[5] = "-" /\ s[8] = "-" /\ s[11] = "T"
       /\ s[14] = ":" /\ s[17] = ":"
       /\ s[Len(s)] = "Z"
       /\ Len(s) > 20 => /\ s[20] = "."
                         /\ Len(s) > 21
                         /\ \A i \in 21..(Len(s) - 1) : digit(i)

\* C21: the validation of an instant fails with InvalidParameters for every
\* string that is not of the form YYYY-MM-DDTHH:MM:SS[.fraction]Z and passes
\* for every string of that form: a query whose limits are valid is refused
\* with InvalidParameters exactly when its start or its end is not of the
\* form.
C21_InstantValidation ==
    \A t \in Threads :
        LET f == th[t]
        IN Validated(f) /\ f.limits = "ok" /\ f.pc # "validate"
           => (f.exc = "InvalidParameters"
                 <=> ~(InstantForm(f.q.start) /\ InstantForm(f.q.end)))

\* a query whose start has a +HH:MM offset in place of the Z has been refused
C21_Witness ==
    \E t \in Threads :
        LET f == th[t]
        IN /\ Validated(f)
           /\ f.limits = "ok"
           /\ f.exc = "InvalidParameters"
           /\ Len(f.q.start) = 25
           /\ f.q.start[20] = "+"

\* C22: get_data_from_device returns the parsed body when the body of the
\* successful response is a JSON object, and returns None, never the text of
\* the body, when the body cannot be parsed as JSON.
C22_DeviceDataValue ==
    \A t \in Threads :
        LET f == th[t]
            body == f.got[Len(f.got)]
        IN /\ f.op = "get_data_from_device" /\ f.pc = "done" /\ f.got # <<>>
              => /\ f.exc = "none"
                 /\ IsJson(body) /\ body \in Objects => f.result = body
                 /\ ~IsJson(body) => f.result = None
           /\ f.op = "get_data_from_device" => f.result # "raw"

\* a get_data_from_device has returned None for a body that is not JSON
C22_Witness ==
    \E t \in Threads :
        LET f == th[t]
        IN /\ f.op = "get_data_from_device"
           /\ f.pc = "done"
           /\ f.got = <<"raw">>
           /\ f.result = None
           /\ f.exc = "none"

\* the identifiers of the records of a device list that contain an id, in
\* the order of the list
ListedIds(body) ==
    LET recs == Records(body)
        withId == SelectSeq(recs, LAMBDA r : r.hasId)
    IN [i \in 1..Len(withId) |-> withId[i].id]

\* C23: get_data_from_all_devices sends a data request for exactly the
\* listed records that contain an id, and its result has an entry for
\* exactly those; a record without an id is passed over, with no request
\* and no entry.
C23_AllDevicesSkipsRecordsWithoutId ==
    \A t \in Threads :
        LET f == th[t]
            ids == IF f.listed = "none" THEN <<>> ELSE ListedIds(f.listed)
        IN f.op = "get_data_from_all_devices" /\ Validated(f)
           => /\ Len(f.asked) <= Len(ids)
              /\ f.asked = SubSeq(ids, 1, Len(f.asked))
              /\ None \notin {f.asked[i] : i \in 1..Len(f.asked)}
              /\ {f.data[j][1] : j \in 1..Len(f.data)}
                    \subseteq {f.asked[i] : i \in 1..Len(f.asked)}
              /\ f.listed = "none" => f.dataReqs = 0
              /\ f.pc = "done" /\ f.exc = "none"
                 => /\ f.result = "dict"
                    /\ f.asked = ids
                    /\ Len(f.got) = Len(ids)
                    /\ {f.data[j][1] : j \in 1..Len(f.data)}
                          = {ids[i] : i \in 1..Len(ids)}

\* an all-devices query over a list of a record without an id and the
\* device d1 has ended with one request and the single entry d1
C23_Witness ==
    \E t \in Threads :
        LET f == th[t]
        IN /\ f.op = "get_data_from_all_devices"
           /\ f.pc = "done"
           /\ f.exc = "none"
           /\ f.listed = "listA"
           /\ Records(f.listed)[1] = NoIdDevice
           /\ f.asked = <<"d1">>
           /\ Len(f.data) = 1
           /\ f.data[1][1] = "d1"

\* C24: get_devices_list returns the parsed device list whenever the list
\* request succeeds (is answered with a status the transport returns) with a
\* body that can be parsed as JSON, and fails with
\* SyconApiBadResponseException whenever the body of the successful response
\* cannot be parsed as JSON.
C24_DevicesListValue ==
    \A t \in Threads :
        LET f == th[t]
        IN f.op = "get_devices_list" /\ f.pc = "done" /\ f.listed # "none"
           => /\ IsJson(f.listed) => f.exc = "none" /\ f.result = f.listed
              /\ ~IsJson(f.listed) => f.exc = "BadResponse"

\* C25: the request renew_token sends is a GET of /auth/renew that carries
\* the token held as the renewal credential in a Renew request header.
C25_RenewSendsRenewHeader ==
    \A t \in Threads :
        LET f == th[t]
        IN f.pc = "renew" /\ f.flight
           => \E i \in 1..Len(f.hdr) :
                 /\ f.hdr[i][1] = "Renew"
                 /\ f.hdr[i][2] = token[f.self]

\* C26: every request sent to the check, renew, device-list or data
\* endpoint carries a bearer credential built from a token that is held: no
\* such request is in flight with the token absent or with a credential
\* built from an absent token, and a _manage_token that returned has not
\* left the token absent.
C26_RequestsCarryHeldToken ==
    \A t \in Threads :
        LET f == th[t]
        IN /\ f.pc \in {"check", "renew", "list", "data"} /\ f.flight
              => /\ token[f.self] # None
                 /\ \E tok \in Tokens : f.hdr = FormatHeaderToken(tok)
           /\ f.managed >= 1 => token[f.self] # None

\* C27: a data query call that ends in a failure (of the validations, of the
\* session calls or of a request) stores nothing in the cache, and the same
\* call made again right after it is not served from the cache: it runs the
\* validations again and, when they pass, _manage_token and at least one
\* request.
C27_FailureStoresNothing ==
    [][\A t \in Threads :
          LET f == th[t]
              g == th'[t]
          IN /\ g.op \in CachedOps /\ g.pc = "done" /\ g.exc # "none"
                /\ f.pc # "done"
                => cache' = cache
             /\ g.rerun
                => /\ g.op \in CachedOps
                   /\ ~Served(g)
                   /\ LruIndex(cache'[g.op], MakeKey(g.shape, g.self, g.q)) # 0
                      => g.pc = "done" /\ g.exc = "none"
                   /\ g.pc = "done"
                      => /\ Validated(g)
                         /\ g.exc \notin {"MissingParameters", "InvalidParameters"}
                            => g.sess # NoSess /\ g.net >= 1
    ]_vars

\* a single-device query that failed at its data request has been made
\* again and has its data request in flight
C27_Witness ==
    \E t \in Threads :
        LET f == th[t]
        IN /\ f.rerun
           /\ f.op = "get_data_from_device"
           /\ f.pc = "data"
           /\ f.flight
           /\ f.managed = 1
           /\ cache[f.op] = <<>>

\* C28: the instances of the client are isolated from each other: a step of
\* an operation of one instance leaves the token of every other instance as
\* it was, and leaves every result cached for another instance in the
\* cache, so that the query of that instance is still served without a
\* request (each instance has its own 10 entries per query method).
C28_InstancesIsolated ==
    [][\A t \in Threads :
          LET f == th[t]
              g == th'[t]
              acting == IF f.op = "none" THEN g.self ELSE f.self
          IN g # f
             => /\ \A c \in Instances \ {acting} : token'[c] = token[c]
                /\ \A m \in CachedOps : \A i \in 1..Len(cache[m]) :
                      cache[m][i].by.self # acting
                      => \E j \in 1..Len(cache'[m]) :
                            cache'[m][j].key = cache[m][i].key
    ]_vars

\* C29: every public operation terminates, with a result or a failure,
\* whatever the server answers, provided each network call returns a
\* response or a failure; and one call of get_data_from_device makes at
\* most 9 network attempts: at most 3 for the check or the login, at most 3
\* for the renewal and at most 3 for the data request.
C29_TerminatesWithinNineAttempts ==
    /\ [](\A t \in Threads :
             LET f == th[t]
             IN f.op = "get_data_from_device"
                => /\ f.net <= 3 * stop_after_attempt
                   /\ f.net = f.sess.checks + f.sess.logins + f.sess.renews
                                + f.dataReqs
                   /\ f.sess.checks + f.sess.logins <= stop_after_attempt
                   /\ f.sess.renews <= stop_after_attempt
                   /\ f.dataReqs <= stop_after_attempt)
    /\ \A t \in Threads : (th[t].pc # "idle") ~> (th[t].pc = "done")

\* a get_data_from_device has returned after 9 attempts: three for the
\* check, three for the renewal and three for the data request
C29_Witness ==
    \E t \in Threads :
        LET f == th[t]
        IN /\ f.op = "get_data_from_device"
           /\ f.pc = "done"
           /\ f.exc = "none"
           /\ f.net = 3 * stop_after_attempt
           /\ f.sess.checks = stop_after_attempt
           /\ f.sess.renews = stop_after_attempt
           /\ f.dataReqs = stop_after_attempt

====
